---- MODULE Spec2Model ----
(***************************************************************************)
(* A model of libqsbr's quiescent-state-based reclamation (qsbr.c) and of  *)
(* the QSBR stress test that drives it (t_stress.c).                       *)
(*                                                                         *)
(* Every step of a thread performs at most one access to memory that other *)
(* threads can see, so the interleavings of the model are the sequentially *)
(* consistent executions of the C code.                                    *)
(***************************************************************************)
EXTENDS Integers, Sequences, FiniteSets, TLC

\* ------------------------------------------------------------- bounds ---
NThreads == 2          \* threads of the API model
NReaders == 1          \* reader threads of the stress test
MaxEpoch == 4          \* the global epoch is not advanced past this value
MaxOps == 3            \* API calls one thread makes in the API model

\* ---------------------------------------------------------- constants ---
NULL == 0              \* the null pointer
WILD == NULL - 1       \* a pointer that is neither NULL nor a record
ENOMEM == 12           \* errno value returned by qsbr_register
OfflineEpoch == 1      \* local_epoch of a thread in extended quiescent state
DS_COUNT == 2          \* data structures of the stress test in the model
AddrMagic == NULL + 1  \* &magic_val

\* qsbr_create: qs->global_epoch = 2
InitGlobalEpoch == 2
\* The epochs of EBR rotate modulo this number.
EBR_EPOCHS == 3
\* t_stress.c: the offset that keeps a tag from being 0
EPOCH_OFF == EBR_EPOCHS
\* What a variable holds that nothing has been written to: no epoch.
Unwritten == NULL - 1

Threads == 1..NThreads
\* The stress test's threads: thread 1 is the writer (id 0 in t_stress.c).
Writer == 1
Workers == 1..(NReaders + 1)
Objs == 0..(DS_COUNT - 1)   \* the objects a writer publishes and retires
AllThreads == Threads \cup Workers
Recs == AllThreads      \* addresses malloc can return for a qsbr_tls_t
Ptrs == Recs \cup {NULL, WILD}
EpochVals == 0..MaxEpoch
Targets == (InitGlobalEpoch + 1)..MaxEpoch \* qsbr_sync is given values qsbr_barrier can return

VARIABLES
    actors,         \* the threads of this run
    global_epoch,   \* qs->global_epoch
    list,           \* qs->list
    mem,            \* the heap: record address -> [local_epoch, next]
    tls,            \* pthread_getspecific(qs->tls_key) of each thread
    aborted,        \* the process died (failed ASSERT, wild pointer)
    pc,             \* each thread's position
    stack,          \* each thread's return labels
    op,             \* the API call each thread is in ("none" between calls)
    nops,           \* API calls each thread has started
    target,         \* qsbr_sync's target / qsbr_wait's new_epoch
    g,              \* the value a thread loaded from qs->global_epoch
    head,           \* qsbr_register's local head
    cur,            \* qsbr_sync's local t
    res,            \* the value the last call returned (true = 1)
    \* the stress test
    ds,             \* the data structures: [ptr, visible]
    n,              \* each worker's index into ds
    stop,           \* the stop flag the alarm handler sets
    arrivals,       \* arrivals at the pthread barrier so far
    bad,            \* the readers that have dereferenced a NULL ds[n].ptr
    \* history variables, read by no action's guard
    barrier_log,    \* the values qsbr_barrier returned, in order
    pristine,       \* no thread has unregistered or registered twice
    uaf,            \* qsbr_sync has read a record that is not allocated
    solo,           \* the thread whose qsbr_sync no other thread has disturbed
    last_write,     \* what last wrote each thread's local_epoch
    seen,           \* the records the current scan of qsbr_sync has tested
    blocked,        \* records in the registry and not ready since the scan began
    calm,           \* the call's target came from a barrier and all other
                    \* registered threads were ready all through the call
    again,          \* the record a thread's qsbr_register found in its TLS slot
    departed,       \* some qsbr_unregister has freed a record
    \* EBR
    ebr_epoch,      \* ebr->global_epoch, in 0..2
    ebr_reg,        \* the threads registered with the EBR instance
    ebr_active,     \* each thread's active flag
    ebr_local,      \* each thread's local epoch
    e_g,            \* the global epoch a thread loaded in ebr_enter / ebr_sync
    e_todo,         \* the records ebr_sync has still to examine
    out_epoch,      \* the caller's variable that ebr_sync writes the epoch to
    gc_epoch,       \* ds[i].gc_epoch of the EBR stress test
    unwritten,      \* a reclaim decision has read an epoch ebr_sync did not write
    \* GC on EBR
    gc_queue,       \* the FIFO of entries [tag, obj]
    limbo_log,      \* the objects in the order of their limbo calls
    destroy_log,    \* the objects in the order of their destructor calls
    inside,         \* per object: the readers that were in a critical section
                    \* at its limbo call and have not left it since (frozen
                    \* when the destructor runs)
    advances        \* per object: successful ebr_sync calls since its limbo

shared == <<global_epoch, list, mem, tls>>
control == <<pc, stack, op, nops>>
locals == <<target, g, head, cur, res>>
stress == <<ds, n, stop, arrivals, bad>>
hist == <<barrier_log, pristine, uaf, last_write, seen>>
tracked == <<solo, blocked, calm, again, departed>>
ebrvars == <<ebr_epoch, ebr_reg, ebr_active, ebr_local, e_g, e_todo, out_epoch,
             gc_epoch, unwritten>>
gcvars == <<gc_queue, limbo_log, destroy_log, inside, advances>>
\* What belongs to the QSBR instance and to the calls of its API alone.
qsbronly == <<shared, op, nops, target, g, head, cur, hist, tracked>>
vars == <<actors, global_epoch, list, mem, tls, aborted, pc, stack, op, nops,
          target, g, head, cur, res, ds, n, stop, arrivals, bad,
          barrier_log, pristine, uaf, solo, last_write, seen, blocked, calm,
          again, departed, ebr_epoch, ebr_reg, ebr_active, ebr_local, e_g,
          e_todo, out_epoch, gc_epoch, unwritten, gc_queue, limbo_log,
          destroy_log, inside, advances>>

\* ------------------------------------------------------------ helpers ---
\* The records allocated at the moment: one per thread that has a TLS value.
LiveRecs == {tls[t] : t \in AllThreads} \ {NULL}
\* The heap has room for one record per thread of the run.
FreeRecs == actors \ LiveRecs

\* The registry: the records met walking from p along next, in order, up to
\* NULL, a wild pointer or the first record met twice.
RECURSIVE ChainFrom(_, _, _)
ChainFrom(m, p, visited) ==
    IF p \notin Recs \/ p \in visited THEN <<>>
    ELSE <<p>> \o ChainFrom(m, m[p].next, visited \cup {p})

Range(s) == {s[i] : i \in 1..Len(s)}
Registry(m, l) == ChainFrom(m, l, {})
RegistrySet(m, l) == Range(Registry(m, l))

\* The pointer at which the walk from p stops: NULL for a well-formed list.
RECURSIVE ChainEnd(_, _, _)
ChainEnd(m, p, visited) ==
    IF p \notin Recs \/ p \in visited THEN p
    ELSE ChainEnd(m, m[p].next, visited \cup {p})

\* A test that does not skip the threads in extended quiescent state.
NotReadyOfflineToo(le, tgt) == le < tgt
\* A test that lets a record one epoch behind the target pass.
NotReadyOffByOne(le, tgt) == le /= OfflineEpoch /\ le + 1 < tgt
\* qsbr_sync's test of one record: the record is not ready for `tgt'.
NotReady(le, tgt) == le /= OfflineEpoch /\ le < tgt

\* A plain store in place of the compare-and-swap.
CasAlwaysSucceeds(current, expected) == TRUE
\* atomic_compare_exchange_weak(&qs->list, head, t) takes effect.
CasSucceeds(current, expected) == current = expected

\* A barrier that returns what atomic_fetch_add returns.
BarrierReturnsOld(old) == old
\* atomic_fetch_add(&qs->global_epoch, 1) + 1.
BarrierValue(old) == old + 1

\* A publication of the epoch before the one loaded.
ObservedStale(loaded) == loaded - 1
\* A publication through a word too narrow for the epoch: it wraps to 0.
ObservedWrapped(loaded) == loaded % MaxEpoch
\* The epoch qsbr_checkpoint and qsbr_thread_online publish.
Observed(loaded) == loaded

\* ------------------------------------------------------------ control ---
At(t, l) == ~aborted /\ t \in actors /\ pc[t] = l
Goto(t, l) == pc' = [pc EXCEPT ![t] = l] /\ UNCHANGED stack
Return(t) ==
    /\ pc' = [pc EXCEPT ![t] = Head(stack[t])]
    /\ stack' = [stack EXCEPT ![t] = Tail(@)]

\* A record's local epoch lets a grace period up to tgt end: the thread is
\* offline or has observed tgt.
Ready(le, tgt) == le = 1 \/ le >= tgt

\* The records of the registry that do not let the grace period tgt end.
Waiting(m, l, tgt) ==
    {r \in RegistrySet(m, l) : ~Ready(m[r].local_epoch, tgt)}

\* Every registered thread other than t is offline or has published an
\* epoch >= tgt since.
OthersReady(t, tgt, m, tl, lw) ==
    \A u \in actors \ {t} :
        tl[u] /= NULL =>
            \/ lw[u] = "off"
            \/ lw[u] = "pub" /\ m[tl[u]].local_epoch >= tgt

\* The history every step keeps: whose qsbr_sync is still undisturbed, which
\* records have been in the registry and waited for ever since each thread's
\* scan read the head, and whether a thread's qsbr_sync or qsbr_wait was
\* given an epoch a barrier had returned and the other threads were ready
\* all through it; the record a qsbr_register found, and whether a record
\* has been freed.
Track(t) ==
    /\ solo' = IF pc[t] = "done" /\ op'[t] = "sync"
                   /\ \A u \in actors \ {t} : pc[u] = "done"
               THEN t
               ELSE IF solo = t /\ pc[t] /= "done" THEN t ELSE 0
    /\ blocked' = [u \in AllThreads |->
          IF u = t /\ pc[t] = "sync_head"
          THEN Waiting(mem', list', target'[u])
          ELSE IF pc'[u] \in {"sync_test", "sync_next", "wait_test", "done"}
               THEN blocked[u] \cap Waiting(mem', list', target'[u])
               ELSE {}]
    /\ calm' = [u \in AllThreads |->
          IF op'[u] \notin {"sync", "wait"} THEN FALSE
          ELSE IF u = t /\ pc[t] \in {"done", "wait_barrier"}
               THEN /\ target'[u] \in Range(barrier_log')
                    /\ OthersReady(u, target'[u], mem', tls', last_write')
               ELSE calm[u]
                    /\ OthersReady(u, target'[u], mem', tls', last_write')]
    /\ again' = [u \in AllThreads |->
          IF u /= t THEN again[u]
          ELSE IF pc[t] = "reg_init" THEN tls[t]
          ELSE IF pc[t] = "done" THEN NULL ELSE again[u]]
    /\ departed' = (departed \/ (pc[t] = "unreg" /\ tls[t] /= NULL))
    /\ UNCHANGED <<ebrvars, gcvars>>

\* --------------------------------------------------------------- Init ---
InitState ==
    /\ global_epoch = InitGlobalEpoch
    /\ list = NULL
    /\ mem = [r \in Recs |-> [local_epoch |-> 0, next |-> NULL]]
    /\ tls = [t \in AllThreads |-> NULL]
    /\ aborted = FALSE
    /\ op = [t \in AllThreads |-> "none"]
    /\ nops = [t \in AllThreads |-> 0]
    /\ target = [t \in AllThreads |-> 0]
    /\ g = [t \in AllThreads |-> 0]
    /\ head = [t \in AllThreads |-> NULL]
    /\ cur = [t \in AllThreads |-> NULL]
    /\ res = [t \in AllThreads |-> 0]
    /\ ds = [i \in 0..(DS_COUNT - 1) |-> [ptr |-> NULL, visible |-> FALSE]]
    /\ n = [t \in AllThreads |-> 0]
    /\ stop = FALSE
    /\ arrivals = 0
    /\ bad = {}
    /\ barrier_log = <<>>
    /\ pristine = TRUE
    /\ uaf = FALSE
    /\ solo = 0
    /\ last_write = [t \in AllThreads |-> "none"]
    /\ seen = [t \in AllThreads |-> {}]
    /\ blocked = [t \in AllThreads |-> {}]
    /\ calm = [t \in AllThreads |-> FALSE]
    /\ again = [t \in AllThreads |-> NULL]
    /\ departed = FALSE
    /\ ebr_epoch = 0
    /\ ebr_reg = {}
    /\ ebr_active = [t \in AllThreads |-> FALSE]
    /\ ebr_local = [t \in AllThreads |-> 0]
    /\ e_g = [t \in AllThreads |-> 0]
    /\ e_todo = [t \in AllThreads |-> {}]
    /\ out_epoch = [t \in AllThreads |-> Unwritten]
    /\ gc_epoch = [i \in 0..(DS_COUNT - 1) |-> 0]
    /\ unwritten = FALSE
    /\ gc_queue = <<>>
    /\ limbo_log = <<>>
    /\ destroy_log = <<>>
    /\ inside = [o \in Objs |-> {}]
    /\ advances = [o \in Objs |-> 0]

\* The state qsbr_create leaves, with every thread between API calls.
Init ==
    /\ InitState
    /\ actors = Threads
    /\ pc = [t \in AllThreads |-> "done"]
    /\ stack = [t \in AllThreads |-> <<>>]

\* ------------------------------------------------------ API: the calls ---
\* A thread between calls makes its next call.  The previous call's locals
\* are dead from here on.
Begin(t, o, l, stk, tgt) ==
    /\ At(t, "done")
    /\ nops[t] < MaxOps
    /\ op' = [op EXCEPT ![t] = o]
    /\ nops' = [nops EXCEPT ![t] = @ + 1]
    /\ pc' = [pc EXCEPT ![t] = l]
    /\ stack' = [stack EXCEPT ![t] = stk]
    /\ target' = [target EXCEPT ![t] = tgt]
    /\ g' = [g EXCEPT ![t] = 0]
    /\ head' = [head EXCEPT ![t] = NULL]
    /\ cur' = [cur EXCEPT ![t] = NULL]
    /\ res' = [res EXCEPT ![t] = 0]
    /\ seen' = [seen EXCEPT ![t] = {}]
    /\ UNCHANGED <<actors, shared, aborted, stress,
                   barrier_log, pristine, uaf, last_write>>
    /\ Track(t)

CallRegister(t) == Begin(t, "register", "reg_init", <<"done">>, 0)
CallUnregister(t) == Begin(t, "unregister", "unreg", <<"done">>, 0)
CallCheckpoint(t) == Begin(t, "checkpoint", "ckpt_load", <<"done">>, 0)
CallGetEpoch(t) == Begin(t, "get_epoch", "get_epoch", <<"done">>, 0)
CallBarrier(t) == Begin(t, "barrier", "barrier", <<"done">>, 0)
\* qsbr_sync begins with a call of qsbr_checkpoint.
CallSync(t) ==
    \E tgt \in Targets :
        Begin(t, "sync", "ckpt_load", <<"sync_head", "done">>, tgt)
CallWait(t) == Begin(t, "wait", "wait_barrier", <<"done">>, 0)
CallOffline(t) == Begin(t, "offline", "offline", <<"done">>, 0)
CallOnline(t) == Begin(t, "online", "online_load", <<"done">>, 0)

\* ------------------------------------------------------ qsbr_register ---
\* A store that lands in the field f of every record.
SetMemEvery(r, f, v) == mem' = [x \in Recs |-> [mem[x] EXCEPT ![f] = v]]
\* r->f = v
SetMem(r, f, v) == mem' = [mem EXCEPT ![r][f] = v]
Zeroed == [local_epoch |-> 0, next |-> NULL]

\* t == NULL and malloc fails: return ENOMEM.
RegisterNoMem(t) ==
    /\ At(t, "reg_init")
    /\ tls[t] = NULL
    /\ res' = [res EXCEPT ![t] = ENOMEM]
    /\ Return(t)
    /\ UNCHANGED <<actors, shared, aborted, op, nops, target, g, head, cur,
                   stress, hist>>
    /\ Track(t)

\* t == NULL: malloc, pthread_setspecific, memset.
RegisterAlloc(t) ==
    /\ At(t, "reg_init")
    /\ tls[t] = NULL
    /\ \E r \in FreeRecs :
        /\ tls' = [tls EXCEPT ![t] = r]
        /\ mem' = [mem EXCEPT ![r] = Zeroed]
    /\ last_write' = [last_write EXCEPT ![t] = "reg"]
    /\ Goto(t, "reg_head")
    /\ UNCHANGED <<actors, global_epoch, list, aborted, op, nops, locals,
                   stress, barrier_log, pristine, uaf, seen>>
    /\ Track(t)

\* t != NULL: the thread's record is used again; memset.
RegisterAgain(t) ==
    /\ At(t, "reg_init")
    /\ tls[t] /= NULL
    /\ mem' = [mem EXCEPT ![tls[t]] = Zeroed]
    /\ last_write' = [last_write EXCEPT ![t] = "reg"]
    /\ pristine' = FALSE
    /\ Goto(t, "reg_head")
    /\ UNCHANGED <<actors, global_epoch, list, tls, aborted, op, nops, locals,
                   stress, barrier_log, uaf, seen>>
    /\ Track(t)

\* head = qs->list
RegisterHead(t) ==
    /\ At(t, "reg_head")
    /\ head' = [head EXCEPT ![t] = list]
    /\ Goto(t, "reg_next")
    /\ UNCHANGED <<actors, shared, aborted, op, nops, target, g, cur, res,
                   stress, hist>>
    /\ Track(t)

\* t->next = head
RegisterNext(t) ==
    /\ At(t, "reg_next")
    /\ SetMem(tls[t], "next", head[t])
    /\ Goto(t, "reg_cas")
    /\ UNCHANGED <<actors, global_epoch, list, tls, aborted, op, nops, locals,
                   stress, hist>>
    /\ Track(t)

\* while (!atomic_compare_exchange_weak(&qs->list, head, t)); return 0
RegisterCas(t) ==
    /\ At(t, "reg_cas")
    /\ IF CasSucceeds(list, head[t])
       THEN /\ list' = tls[t]
            /\ res' = [res EXCEPT ![t] = 0]
            /\ head' = [head EXCEPT ![t] = NULL]
            /\ Return(t)
       ELSE /\ Goto(t, "reg_head")
            /\ UNCHANGED <<list, res, head>>
    /\ UNCHANGED <<actors, global_epoch, mem, tls, aborted, op, nops, target,
                   g, cur, stress, hist>>
    /\ Track(t)

\* ---------------------------------------------------- qsbr_unregister ---
\* What free() leaves in a record: each word as it was or overwritten by the
\* allocator, local_epoch with zero or with a large value, next with
\* something that is no record.
Freed(rec) ==
    {[local_epoch |-> le, next |-> nx] :
        le \in {rec.local_epoch, 0, MaxEpoch}, nx \in {rec.next, WILD}}

\* free(t); pthread_setspecific(qs->tls_key, NULL).  The record stays linked.
Unregister(t) ==
    /\ At(t, "unreg")
    /\ IF tls[t] = NULL
       THEN UNCHANGED <<mem, tls, pristine, last_write>>
       ELSE /\ \E f \in Freed(mem[tls[t]]) : mem' = [mem EXCEPT ![tls[t]] = f]
            /\ tls' = [tls EXCEPT ![t] = NULL]
            /\ pristine' = FALSE
            /\ last_write' = [last_write EXCEPT ![t] = "none"]
    /\ Return(t)
    /\ UNCHANGED <<actors, global_epoch, list, aborted, op, nops, locals,
                   stress, barrier_log, uaf, seen>>
    /\ Track(t)

\* ------------------------------------ ASSERT(t != NULL) in five places ---
AssertPcs == {"ckpt_load", "get_epoch", "offline", "online_load"}

\* An assertion that never fails.
HasRecordAlways(t) == TRUE
\* t != NULL, for t = pthread_getspecific(qs->tls_key)
HasRecord(t) == tls[t] /= NULL

\* How a call by a thread without a record ends: in a build with assertions
\* the ASSERT fails; in the default build (-DNDEBUG) there is no check and
\* the function reads or writes t->local_epoch through the NULL pointer.
NoRecordOutcomes == {"assert_failed", "null_deref"}

\* The calling thread has no record: either way the process dies.
AssertFail(t) ==
    /\ ~aborted /\ t \in actors
    /\ pc[t] \in AssertPcs
    /\ ~HasRecord(t)
    /\ aborted' = TRUE
    /\ \E o \in NoRecordOutcomes : pc' = [pc EXCEPT ![t] = o]
    /\ UNCHANGED <<actors, shared, stack, op, nops, locals, stress, hist>>
    /\ Track(t)

\* ---------------------------------------------------- qsbr_checkpoint ---
\* the load of qs->global_epoch in  t->local_epoch = qs->global_epoch
CheckpointLoad(t) ==
    /\ At(t, "ckpt_load")
    /\ HasRecord(t)
    /\ g' = [g EXCEPT ![t] = global_epoch]
    /\ Goto(t, "ckpt_store")
    /\ UNCHANGED <<actors, shared, aborted, op, nops, target, head, cur, res,
                   stress, hist>>
    /\ Track(t)

\* the store to t->local_epoch
CheckpointStore(t) ==
    /\ At(t, "ckpt_store")
    /\ SetMem(tls[t], "local_epoch", Observed(g[t]))
    /\ g' = [g EXCEPT ![t] = 0]
    /\ last_write' = [last_write EXCEPT ![t] = "pub"]
    /\ Return(t)
    /\ UNCHANGED <<actors, global_epoch, list, tls, aborted, op, nops, target,
                   head, cur, res, stress, barrier_log, pristine, uaf, seen>>
    /\ Track(t)

\* ----------------------------------------------------- qsbr_get_epoch ---
GetEpoch(t) ==
    /\ At(t, "get_epoch")
    /\ HasRecord(t)
    /\ res' = [res EXCEPT ![t] = mem[tls[t]].local_epoch]
    /\ Return(t)
    /\ UNCHANGED <<actors, shared, aborted, op, nops, target, g, head, cur,
                   stress, hist>>
    /\ Track(t)

\* ------------------------------------------------------- qsbr_barrier ---
\* atomic_fetch_add(&qs->global_epoch, 1) + 1, for the caller `o'.
FetchAdd(t) ==
    /\ global_epoch < MaxEpoch
    /\ global_epoch' = global_epoch + 1
    /\ barrier_log' = Append(barrier_log, BarrierValue(global_epoch))

Barrier(t) ==
    /\ At(t, "barrier")
    /\ FetchAdd(t)
    /\ res' = [res EXCEPT ![t] = BarrierValue(global_epoch)]
    /\ Return(t)
    /\ UNCHANGED <<actors, list, mem, tls, aborted, op, nops, target, g, head,
                   cur, stress, pristine, uaf, last_write, seen>>
    /\ Track(t)

\* ---------------------------------------------------------- qsbr_sync ---
\* The scan moves to p: while (t) ends the scan with true at NULL.
ScanTo(t, p) ==
    IF p = NULL
    THEN /\ cur' = [cur EXCEPT ![t] = NULL]
         /\ res' = [res EXCEPT ![t] = 1]
         /\ Return(t)
    ELSE /\ cur' = [cur EXCEPT ![t] = p]
         /\ Goto(t, "sync_test")
         /\ UNCHANGED res

\* t = qs->list
SyncHead(t) ==
    /\ At(t, "sync_head")
    /\ ScanTo(t, list)
    /\ seen' = [seen EXCEPT ![t] = {}]
    /\ UNCHANGED <<actors, shared, aborted, op, nops, target, g, head,
                   stress, barrier_log, pristine, uaf, last_write>>
    /\ Track(t)

\* if (t->local_epoch != 1 && t->local_epoch < target) return false
SyncTest(t) ==
    /\ At(t, "sync_test")
    /\ cur[t] \in Recs
    /\ uaf' = (uaf \/ cur[t] \notin LiveRecs)
    /\ seen' = [seen EXCEPT ![t] = @ \cup {cur[t]}]
    /\ IF NotReady(mem[cur[t]].local_epoch, target[t])
       THEN /\ res' = [res EXCEPT ![t] = 0]
            /\ Return(t)
       ELSE /\ Goto(t, "sync_next")
            /\ UNCHANGED res
    /\ UNCHANGED <<actors, shared, aborted, op, nops, target, g, head, cur,
                   stress, barrier_log, pristine, last_write>>
    /\ Track(t)

\* t = t->next
SyncNext(t) ==
    /\ At(t, "sync_next")
    /\ ScanTo(t, mem[cur[t]].next)
    /\ UNCHANGED <<actors, shared, aborted, op, nops, target, g, head,
                   stress, hist>>
    /\ Track(t)

\* t is the pointer the allocator left in a freed record: the process dies.
SyncWild(t) ==
    /\ At(t, "sync_test")
    /\ cur[t] \notin Recs
    /\ aborted' = TRUE
    /\ UNCHANGED <<actors, shared, control, locals, stress, hist>>
    /\ Track(t)

\* ---------------------------------------------------------- qsbr_wait ---
\* new_epoch = qsbr_barrier(qsbr), then the first call of qsbr_sync
WaitBarrier(t) ==
    /\ At(t, "wait_barrier")
    /\ FetchAdd(t)
    /\ target' = [target EXCEPT ![t] = BarrierValue(global_epoch)]
    /\ pc' = [pc EXCEPT ![t] = "ckpt_load"]
    /\ stack' = [stack EXCEPT ![t] = <<"sync_head", "wait_test">> \o @]
    /\ UNCHANGED <<actors, list, mem, tls, aborted, op, nops, g, head, cur,
                   res, stress, pristine, uaf, last_write, seen>>
    /\ Track(t)

\* while (!qsbr_sync(qsbr, new_epoch)) nanosleep(&sleep, NULL)
WaitTest(t) ==
    /\ At(t, "wait_test")
    /\ IF res[t] = 1
       THEN Return(t)
       ELSE /\ pc' = [pc EXCEPT ![t] = "ckpt_load"]
            /\ stack' = [stack EXCEPT ![t] = <<"sync_head", "wait_test">> \o @]
    /\ UNCHANGED <<actors, shared, aborted, op, nops, locals, stress, hist>>
    /\ Track(t)

\* ------------------------------ qsbr_thread_offline, qsbr_thread_online ---
\* t->local_epoch = 1
ThreadOffline(t) ==
    /\ At(t, "offline")
    /\ HasRecord(t)
    /\ SetMem(tls[t], "local_epoch", OfflineEpoch)
    /\ last_write' = [last_write EXCEPT ![t] = "off"]
    /\ Return(t)
    /\ UNCHANGED <<actors, global_epoch, list, tls, aborted, op, nops, locals,
                   stress, barrier_log, pristine, uaf, seen>>
    /\ Track(t)

\* the load of qs->global_epoch in  t->local_epoch = qs->global_epoch
ThreadOnlineLoad(t) ==
    /\ At(t, "online_load")
    /\ HasRecord(t)
    /\ g' = [g EXCEPT ![t] = global_epoch]
    /\ Goto(t, "online_store")
    /\ UNCHANGED <<actors, shared, aborted, op, nops, target, head, cur, res,
                   stress, hist>>
    /\ Track(t)

\* the store to t->local_epoch
ThreadOnlineStore(t) ==
    /\ At(t, "online_store")
    /\ SetMem(tls[t], "local_epoch", Observed(g[t]))
    /\ g' = [g EXCEPT ![t] = 0]
    /\ last_write' = [last_write EXCEPT ![t] = "pub"]
    /\ Return(t)
    /\ UNCHANGED <<actors, global_epoch, list, tls, aborted, op, nops, target,
                   head, cur, res, stress, barrier_log, pristine, uaf, seen>>
    /\ Track(t)

\* ------------------------------------------------- the API model: Spec ---
\* The steps inside the calls of qsbr.h.
Proceed(t) ==
    \/ RegisterNoMem(t) \/ RegisterAlloc(t) \/ RegisterAgain(t)
    \/ RegisterHead(t) \/ RegisterNext(t) \/ RegisterCas(t)
    \/ Unregister(t) \/ AssertFail(t)
    \/ CheckpointLoad(t) \/ CheckpointStore(t) \/ GetEpoch(t)
    \/ Barrier(t) \/ SyncHead(t) \/ SyncTest(t) \/ SyncNext(t)
    \/ SyncWild(t) \/ WaitBarrier(t) \/ WaitTest(t)
    \/ ThreadOffline(t) \/ ThreadOnlineLoad(t) \/ ThreadOnlineStore(t)

\* Threads call the operations of qsbr.h in any order, any thread at any time.
Next ==
    \E t \in Threads :
        \/ CallRegister(t) \/ CallUnregister(t) \/ CallCheckpoint(t)
        \/ CallGetEpoch(t) \/ CallBarrier(t) \/ CallSync(t) \/ CallWait(t)
        \/ CallOffline(t) \/ CallOnline(t)
        \/ Proceed(t)

Spec == Init /\ [][Next]_vars

\* The scheduler lets every thread that is inside a call take its next step;
\* whether a thread makes another call is up to the thread.
SpecFair == Spec /\ \A t \in Threads : WF_vars(Proceed(t))

\* ------------------------------------------------ the QSBR stress test ---
\* pthread_barrier_wait(&barrier): the thread arrives.
StressArrive(t) ==
    /\ ~aborted /\ t \in actors
    /\ pc[t] \in {"st_arrive1", "st_arrive2"}
    /\ arrivals' = arrivals + 1
    /\ Goto(t, IF pc[t] = "st_arrive1" THEN "st_wait1" ELSE "st_wait2")
    /\ UNCHANGED <<actors, shared, aborted, op, nops, locals, ds, n, stop, bad,
                   hist>>
    /\ Track(t)

\* The first barrier opens once every worker has registered.
StressStart(t) ==
    /\ At(t, "st_wait1")
    /\ arrivals >= Cardinality(actors)
    /\ Goto(t, "st_loop")
    /\ UNCHANGED <<actors, shared, aborted, op, nops, locals, stress, hist>>
    /\ Track(t)

\* while (!stop) { n = ++n & (DS_COUNT - 1); ... }  A reader that leaves the
\* loop calls qsbr_checkpoint once more before the second barrier.
StressLoop(t) ==
    /\ At(t, "st_loop")
    /\ IF stop
       THEN /\ IF t = Writer
               THEN Goto(t, "st_arrive2")
               ELSE /\ pc' = [pc EXCEPT ![t] = "ckpt_load"]
                    /\ stack' = [stack EXCEPT ![t] = <<"st_arrive2">>]
            /\ UNCHANGED n
       ELSE /\ n' = [n EXCEPT ![t] = (@ + 1) % DS_COUNT]
            /\ Goto(t, IF t = Writer THEN "w_writer" ELSE "r_visible")
    /\ UNCHANGED <<actors, shared, aborted, op, nops, locals, ds, stop,
                   arrivals, bad, hist>>
    /\ Track(t)

\* qsbr_writer: a visible object is hidden and wait() is called; an object
\* that is not visible gets its pointer back.
StressWriter(t) ==
    /\ At(t, "w_writer")
    /\ IF ds[n[t]].visible
       THEN /\ ds' = [ds EXCEPT ![n[t]].visible = FALSE]
            /\ pc' = [pc EXCEPT ![t] = "wait_barrier"]
            /\ stack' = [stack EXCEPT ![t] = <<"w_reclaim">>]
       ELSE /\ ds' = [ds EXCEPT ![n[t]].ptr = AddrMagic]
            /\ Goto(t, "w_publish")
    /\ UNCHANGED <<actors, shared, aborted, op, nops, locals, n, stop,
                   arrivals, bad, hist>>
    /\ Track(t)

\* obj->visible = true
StressPublish(t) ==
    /\ At(t, "w_publish")
    /\ ds' = [ds EXCEPT ![n[t]].visible = TRUE]
    /\ Goto(t, "st_loop")
    /\ UNCHANGED <<actors, shared, aborted, op, nops, locals, n, stop,
                   arrivals, bad, hist>>
    /\ Track(t)

\* obj->ptr = NULL, after wait() has returned
StressReclaim(t) ==
    /\ At(t, "w_reclaim")
    /\ ds' = [ds EXCEPT ![n[t]].ptr = NULL]
    /\ Goto(t, "st_loop")
    /\ UNCHANGED <<actors, shared, aborted, op, nops, locals, n, stop,
                   arrivals, bad, hist>>
    /\ Track(t)

\* The call of qsbr_checkpoint that ends a reader's iteration.
ReaderCheckpoint(t) ==
    /\ pc' = [pc EXCEPT ![t] = "ckpt_load"]
    /\ stack' = [stack EXCEPT ![t] = <<"st_loop">>]

\* the load of ds[n].visible
StressVisible(t) ==
    /\ At(t, "r_visible")
    /\ IF ds[n[t]].visible THEN Goto(t, "r_deref") ELSE ReaderCheckpoint(t)
    /\ UNCHANGED <<actors, shared, aborted, op, nops, locals, stress, hist>>
    /\ Track(t)

\* *ds[n].ptr: the load of the pointer and the load through it
StressDeref(t) ==
    /\ At(t, "r_deref")
    /\ IF ds[n[t]].ptr = NULL
       THEN /\ bad' = bad \cup {t}
            /\ aborted' = TRUE
            /\ UNCHANGED <<pc, stack>>
       ELSE /\ ReaderCheckpoint(t)
            /\ UNCHANGED <<bad, aborted>>
    /\ UNCHANGED <<actors, shared, op, nops, locals, ds, n, stop, arrivals,
                   hist>>
    /\ Track(t)

\* ding: the alarm handler sets the stop flag.
StressDing ==
    /\ ~aborted
    /\ ~stop
    /\ stop' = TRUE
    /\ UNCHANGED <<actors, shared, aborted, control, locals, ds, n, arrivals,
                   bad, hist, tracked, ebrvars, gcvars>>

\* The second barrier opens; pthread_exit runs the key's destructor, free.
StressExit(t) ==
    /\ At(t, "st_wait2")
    /\ arrivals = 2 * Cardinality(actors)
    /\ IF tls[t] = NULL
       THEN UNCHANGED <<mem, tls>>
       ELSE /\ \E f \in Freed(mem[tls[t]]) : mem' = [mem EXCEPT ![tls[t]] = f]
            /\ tls' = [tls EXCEPT ![t] = NULL]
    /\ Goto(t, "exited")
    /\ UNCHANGED <<actors, global_epoch, list, aborted, op, nops, locals,
                   stress, hist>>
    /\ Track(t)

\* Every worker starts by calling qsbr_register.
InitStress ==
    /\ InitState
    /\ actors = Workers
    /\ pc = [t \in AllThreads |-> IF t \in Workers THEN "reg_init" ELSE "done"]
    /\ stack = [t \in AllThreads |->
                   IF t \in Workers THEN <<"st_arrive1">> ELSE <<>>]

\* The steps of the worker t.
StressStep(t) ==
    \/ RegisterNoMem(t) \/ RegisterAlloc(t)
    \/ RegisterHead(t) \/ RegisterNext(t) \/ RegisterCas(t)
    \/ AssertFail(t)
    \/ CheckpointLoad(t) \/ CheckpointStore(t)
    \/ SyncHead(t) \/ SyncTest(t) \/ SyncNext(t)
    \/ WaitBarrier(t) \/ WaitTest(t)
    \/ StressArrive(t) \/ StressStart(t) \/ StressLoop(t)
    \/ StressWriter(t) \/ StressPublish(t) \/ StressReclaim(t)
    \/ StressVisible(t) \/ StressDeref(t) \/ StressExit(t)

NextStress ==
    \/ StressDing
    \/ \E t \in Workers : StressStep(t)

SpecStress == InitStress /\ [][NextStress]_vars

\* Every worker thread keeps running, and the alarm goes off.
SpecStressFair ==
    /\ SpecStress
    /\ WF_vars(StressDing)
    /\ \A t \in Workers : WF_vars(StressStep(t))


\* =================================================================== EBR ==
\* The three epochs of an EBR instance, counted from the global epoch e.
NextEpoch(e) == (e + 1) % EBR_EPOCHS
StagingEpoch(e) == e
PendingEpoch(e) == (e + 1) % EBR_EPOCHS
IncumbentEpoch(e) == (e + 2) % EBR_EPOCHS

\* ebr_sync does not advance past a thread that is in a critical section and
\* has not observed the global epoch ge.
Lagging(active, le, ge) == active /\ le /= ge

\* What a step of the EBR side leaves alone besides the QSBR instance.
EbrCall(t, l, ret) ==
    /\ pc' = [pc EXCEPT ![t] = l]
    /\ stack' = [stack EXCEPT ![t] = <<ret>>]

\* ebr_register: the thread's record joins the registry, inactive.
EbrRegister(t) ==
    /\ At(t, "e_register")
    /\ ebr_reg' = ebr_reg \cup {t}
    /\ ebr_active' = [ebr_active EXCEPT ![t] = FALSE]
    /\ Return(t)
    /\ UNCHANGED <<actors, aborted, res, stress, qsbronly, gcvars, ebr_epoch,
                   ebr_local, e_g, e_todo, out_epoch, gc_epoch, unwritten>>

\* ebr_enter: the load of the global epoch
EbrEnterLoad(t) ==
    /\ At(t, "enter_load")
    /\ e_g' = [e_g EXCEPT ![t] = ebr_epoch]
    /\ Goto(t, "enter_store")
    /\ UNCHANGED <<actors, aborted, res, stress, qsbronly, gcvars, ebr_epoch, ebr_reg,
                   ebr_active, ebr_local, e_todo, out_epoch, gc_epoch,
                   unwritten>>

\* ebr_enter: the one store of the epoch and the active flag
EbrEnterStore(t) ==
    /\ At(t, "enter_store")
    /\ ebr_local' = [ebr_local EXCEPT ![t] = e_g[t]]
    /\ ebr_active' = [ebr_active EXCEPT ![t] = TRUE]
    /\ Return(t)
    /\ UNCHANGED <<actors, aborted, res, stress, qsbronly, gcvars, ebr_epoch, ebr_reg,
                   e_g, e_todo, out_epoch, gc_epoch, unwritten>>

\* ebr_exit: the active flag is cleared
EbrExit(t) ==
    /\ At(t, "exit")
    /\ ebr_active' = [ebr_active EXCEPT ![t] = FALSE]
    /\ Return(t)
    /\ inside' = [o \in Objs |->
                     IF o \in Range(destroy_log) THEN inside[o]
                     ELSE inside[o] \ {t}]
    /\ UNCHANGED <<actors, aborted, res, stress, qsbronly, ebr_epoch, ebr_reg,
                   ebr_local, e_g, e_todo, out_epoch, gc_epoch, unwritten,
                   gc_queue, limbo_log, destroy_log, advances>>

\* ebr_sync: the load of the global epoch; every registered thread is to be
\* examined.
EbrSyncLoad(t) ==
    /\ At(t, "esync_load")
    /\ e_g' = [e_g EXCEPT ![t] = ebr_epoch]
    /\ e_todo' = [e_todo EXCEPT ![t] = ebr_reg]
    /\ Goto(t, "esync_check")
    /\ UNCHANGED <<actors, aborted, res, stress, qsbronly, gcvars, ebr_epoch, ebr_reg,
                   ebr_active, ebr_local, out_epoch, gc_epoch, unwritten>>

\* ebr_sync: one thread's record is examined; false is returned, and nothing
\* is written to the caller's variable, when the thread lags.
EbrSyncCheck(t) ==
    /\ At(t, "esync_check")
    /\ \E u \in e_todo[t] :
          IF Lagging(ebr_active[u], ebr_local[u], e_g[t])
          THEN /\ res' = [res EXCEPT ![t] = 0]
               /\ e_todo' = [e_todo EXCEPT ![t] = {}]
               /\ Return(t)
          ELSE /\ e_todo' = [e_todo EXCEPT ![t] = @ \ {u}]
               /\ UNCHANGED <<res, pc, stack>>
    /\ UNCHANGED <<actors, aborted, stress, qsbronly, gcvars, ebr_epoch, ebr_reg,
                   ebr_active, ebr_local, e_g, out_epoch, gc_epoch, unwritten>>

\* ebr_sync: no thread lags; the global epoch advances, the new epoch is
\* written to the caller's variable and true is returned.
EbrSyncAdvance(t) ==
    /\ At(t, "esync_check")
    /\ e_todo[t] = {}
    /\ ebr_epoch' = NextEpoch(e_g[t])
    /\ out_epoch' = [out_epoch EXCEPT ![t] = NextEpoch(e_g[t])]
    /\ res' = [res EXCEPT ![t] = 1]
    /\ Return(t)
    /\ advances' = [o \in Objs |->
                       IF o \in Range(limbo_log) /\ advances[o] < EBR_EPOCHS
                       THEN advances[o] + 1 ELSE advances[o]]
    /\ UNCHANGED <<actors, aborted, stress, qsbronly, ebr_reg, ebr_active,
                   ebr_local, e_g, e_todo, gc_epoch, unwritten, gc_queue,
                   limbo_log, destroy_log, inside>>

\* ------------------------------------------------- the EBR stress test --
\* ebr_sync(ebr, &epoch), epoch being a fresh local variable of ebr_writer
WriterSync(t) ==
    /\ EbrCall(t, "esync_load", "ew_reclaim")
    /\ out_epoch' = [out_epoch EXCEPT ![t] = Unwritten]

\* while (!stop) { n = ++n & (DS_COUNT - 1); ... }: the worker 0 runs
\* ebr_writer, every other worker calls ebr_enter.
EbrLoop(t) ==
    /\ At(t, "st_loop")
    /\ IF stop
       THEN /\ Goto(t, "st_arrive2")
            /\ UNCHANGED n
       ELSE /\ n' = [n EXCEPT ![t] = (@ + 1) % DS_COUNT]
            /\ IF t = Writer
               THEN Goto(t, "ew_writer")
               ELSE EbrCall(t, "enter_load", "er_visible")
    /\ UNCHANGED <<actors, aborted, res, ds, stop, arrivals, bad, qsbronly, gcvars,
                   ebrvars>>

\* ebr_writer: a visible object is hidden; an object that is neither visible
\* nor tagged gets its pointer back; a tagged object is left alone.
EbrWriter(t) ==
    /\ At(t, "ew_writer")
    /\ IF ds[n[t]].visible
       THEN /\ ds' = [ds EXCEPT ![n[t]].visible = FALSE]
            /\ Goto(t, "ew_tag")
            /\ UNCHANGED out_epoch
       ELSE IF gc_epoch[n[t]] = 0
       THEN /\ ds' = [ds EXCEPT ![n[t]].ptr = AddrMagic]
            /\ Goto(t, "ew_publish")
            /\ UNCHANGED out_epoch
       ELSE /\ WriterSync(t)
            /\ UNCHANGED ds
    /\ UNCHANGED <<actors, aborted, res, n, stop, arrivals, bad, qsbronly, gcvars,
                   ebr_epoch, ebr_reg, ebr_active, ebr_local, e_g, e_todo,
                   gc_epoch, unwritten>>

\* obj->gc_epoch = EBR_EPOCHS + ebr_pending_epoch(ebr); then ebr_sync
EbrTag(t) ==
    /\ At(t, "ew_tag")
    /\ gc_epoch' = [gc_epoch EXCEPT ![n[t]] = EPOCH_OFF + PendingEpoch(ebr_epoch)]
    /\ WriterSync(t)
    /\ UNCHANGED <<actors, aborted, res, stress, qsbronly, gcvars, ebr_epoch, ebr_reg,
                   ebr_active, ebr_local, e_g, e_todo, unwritten>>

\* obj->visible = true; then ebr_sync
EbrPublish(t) ==
    /\ At(t, "ew_publish")
    /\ ds' = [ds EXCEPT ![n[t]].visible = TRUE]
    /\ WriterSync(t)
    /\ UNCHANGED <<actors, aborted, res, n, stop, arrivals, bad, qsbronly, gcvars,
                   ebr_epoch, ebr_reg, ebr_active, ebr_local, e_g, e_todo,
                   gc_epoch, unwritten>>

\* if (obj->gc_epoch == EPOCH_OFF + epoch) { obj->ptr = NULL;
\* obj->gc_epoch = 0; }  The return value of ebr_sync is not looked at: when
\* ebr_sync wrote nothing, epoch is read uninitialized and the test may come
\* out either way.
EbrReclaim(t) ==
    /\ At(t, "ew_reclaim")
    /\ \E match \in BOOLEAN :
          /\ out_epoch[t] /= Unwritten
                => match = (gc_epoch[n[t]] = EPOCH_OFF + out_epoch[t])
          /\ IF match
             THEN /\ ds' = [ds EXCEPT ![n[t]].ptr = NULL]
                  /\ gc_epoch' = [gc_epoch EXCEPT ![n[t]] = 0]
                  /\ unwritten' = (unwritten \/ out_epoch[t] = Unwritten)
             ELSE UNCHANGED <<ds, gc_epoch, unwritten>>
    /\ Goto(t, "st_loop")
    /\ UNCHANGED <<actors, aborted, res, n, stop, arrivals, bad, qsbronly, gcvars,
                   ebr_epoch, ebr_reg, ebr_active, ebr_local, e_g, e_todo,
                   out_epoch>>

\* the load of ds[n].visible inside the critical section
EbrVisible(t) ==
    /\ At(t, "er_visible")
    /\ IF ds[n[t]].visible
       THEN Goto(t, "er_deref")
       ELSE EbrCall(t, "exit", "st_loop")
    /\ UNCHANGED <<actors, aborted, res, stress, qsbronly, gcvars, ebrvars>>

\* *ds[n].ptr != MAGIC_VAL: the load of the pointer and the load through it
EbrDeref(t) ==
    /\ At(t, "er_deref")
    /\ IF ds[n[t]].ptr = NULL
       THEN /\ bad' = bad \cup {t}
            /\ aborted' = TRUE
            /\ UNCHANGED <<pc, stack>>
       ELSE /\ EbrCall(t, "exit", "st_loop")
            /\ UNCHANGED <<bad, aborted>>
    /\ UNCHANGED <<actors, res, ds, n, stop, arrivals, qsbronly, gcvars, ebrvars>>

\* Every worker starts by calling ebr_register.
InitEbr ==
    /\ InitState
    /\ actors = Workers
    /\ pc = [t \in AllThreads |-> IF t \in Workers THEN "e_register" ELSE "done"]
    /\ stack = [t \in AllThreads |->
                   IF t \in Workers THEN <<"st_arrive1">> ELSE <<>>]

\* The steps of the worker t of the EBR stress test.
EbrStep(t) ==
    \/ EbrRegister(t)
    \/ EbrEnterLoad(t) \/ EbrEnterStore(t) \/ EbrExit(t)
    \/ EbrSyncLoad(t) \/ EbrSyncCheck(t) \/ EbrSyncAdvance(t)
    \/ StressArrive(t) \/ StressStart(t) \/ EbrLoop(t)
    \/ EbrWriter(t) \/ EbrTag(t) \/ EbrPublish(t) \/ EbrReclaim(t)
    \/ EbrVisible(t) \/ EbrDeref(t) \/ StressExit(t)

NextEbr ==
    \/ StressDing
    \/ \E t \in Workers : EbrStep(t)

SpecEbr == InitEbr /\ [][NextEbr]_vars


\* ============================================================ GC on EBR ==
\* One writer publishes objects, retires them through gc_limbo, calls
\* ebr_sync and gc_async_flush; the readers load a published object inside
\* ebr_enter/ebr_exit.  The destructor poisons the object: its ptr is NULL.
Published(o) == ds[o].visible
Retired(o) == o \in Range(limbo_log)
Destroyed(o) == o \in Range(destroy_log)

\* The tag t is reported safe when the global epoch is e.
IsSafe(tag, e) == tag = IncumbentEpoch(e)

\* The queue has a head, and its tag is reported safe.
HeadSafe == gc_queue /= <<>> /\ IsSafe(Head(gc_queue).tag, ebr_epoch)

\* The writer stores a new object and makes it reachable.
GcInsert(t) ==
    /\ At(t, "gc_idle")
    /\ \E o \in Objs :
          /\ ~Published(o)
          /\ ~Retired(o)
          /\ ds' = [ds EXCEPT ![o] = [ptr |-> AddrMagic, visible |-> TRUE]]
    /\ UNCHANGED <<actors, aborted, res, pc, stack, n, stop, arrivals, bad,
                   qsbronly, ebrvars, gcvars>>

\* The writer makes an object unreachable; the limbo call follows.
GcUnpublish(t) ==
    /\ At(t, "gc_idle")
    /\ \E o \in Objs :
          /\ Published(o)
          /\ ds' = [ds EXCEPT ![o].visible = FALSE]
          /\ n' = [n EXCEPT ![t] = o]
    /\ Goto(t, "gc_limbo")
    /\ UNCHANGED <<actors, aborted, res, stop, arrivals, bad, qsbronly,
                   ebrvars, gcvars>>

\* gc_limbo(ptr): the entry (staging epoch, ptr) is appended.
GcLimbo(t) ==
    /\ At(t, "gc_limbo")
    /\ gc_queue' = Append(gc_queue,
                          [tag |-> StagingEpoch(ebr_epoch), obj |-> n[t]])
    /\ limbo_log' = Append(limbo_log, n[t])
    /\ inside' = [inside EXCEPT ![n[t]] = {r \in ebr_reg : ebr_active[r]}]
    /\ advances' = [advances EXCEPT ![n[t]] = 0]
    /\ Goto(t, "gc_idle")
    /\ UNCHANGED <<actors, aborted, res, stress, qsbronly, ebrvars,
                   destroy_log>>

\* The writer calls ebr_sync.
GcCallSync(t) ==
    /\ At(t, "gc_idle")
    /\ EbrCall(t, "esync_load", "gc_idle")
    /\ UNCHANGED <<actors, aborted, res, stress, qsbronly, ebrvars, gcvars>>

\* The writer calls gc_async_flush.
GcCallFlush(t) ==
    /\ At(t, "gc_idle")
    /\ EbrCall(t, "flush_head", "gc_idle")
    /\ UNCHANGED <<actors, aborted, res, stress, qsbronly, ebrvars, gcvars>>

\* gc_async_flush: the head is popped and its destructor called while its
\* tag is reported safe.
GcFlushPop(t) ==
    /\ At(t, "flush_head")
    /\ HeadSafe
    /\ gc_queue' = Tail(gc_queue)
    /\ destroy_log' = Append(destroy_log, Head(gc_queue).obj)
    /\ ds' = [ds EXCEPT ![Head(gc_queue).obj].ptr = NULL]
    /\ UNCHANGED <<actors, aborted, res, pc, stack, n, stop, arrivals, bad,
                   qsbronly, ebrvars, limbo_log, inside, advances>>

\* gc_async_flush: the head is not safe, or the queue is empty; true is
\* returned when the queue is empty.
GcFlushReturn(t) ==
    /\ At(t, "flush_head")
    /\ ~HeadSafe
    /\ res' = [res EXCEPT ![t] = IF gc_queue = <<>> THEN 1 ELSE 0]
    /\ Return(t)
    /\ UNCHANGED <<actors, aborted, stress, qsbronly, ebrvars, gcvars>>

\* A reader starts a critical section.
GcReaderEnter(t) ==
    /\ At(t, "gr_idle")
    /\ EbrCall(t, "enter_load", "gr_load")
    /\ UNCHANGED <<actors, aborted, res, stress, qsbronly, ebrvars, gcvars>>

\* The reader loads the pointer of a published object, if there is one.
GcReaderLoad(t) ==
    /\ At(t, "gr_load")
    /\ \/ \E o \in Objs :
             /\ Published(o)
             /\ n' = [n EXCEPT ![t] = o]
             /\ Goto(t, "gr_use")
       \/ /\ \A o \in Objs : ~Published(o)
          /\ EbrCall(t, "exit", "gr_idle")
          /\ UNCHANGED n
    /\ UNCHANGED <<actors, aborted, res, ds, stop, arrivals, bad, qsbronly,
                   ebrvars, gcvars>>

\* The reader dereferences the pointer it loaded and leaves the critical
\* section; it aborts on a poisoned object.
GcReaderUse(t) ==
    /\ At(t, "gr_use")
    /\ IF ds[n[t]].ptr = NULL
       THEN /\ bad' = bad \cup {t}
            /\ aborted' = TRUE
            /\ UNCHANGED <<pc, stack>>
       ELSE /\ EbrCall(t, "exit", "gr_idle")
            /\ UNCHANGED <<bad, aborted>>
    /\ UNCHANGED <<actors, res, ds, n, stop, arrivals, qsbronly, ebrvars,
                   gcvars>>

\* Every thread starts by calling ebr_register.
InitGc ==
    /\ InitState
    /\ actors = Workers
    /\ pc = [t \in AllThreads |-> IF t \in Workers THEN "e_register" ELSE "done"]
    /\ stack = [t \in AllThreads |->
                   IF t = Writer THEN <<"gc_idle">>
                   ELSE IF t \in Workers THEN <<"gr_idle">> ELSE <<>>]

NextGc ==
    \E t \in Workers :
        \/ EbrRegister(t)
        \/ EbrEnterLoad(t) \/ EbrEnterStore(t) \/ EbrExit(t)
        \/ EbrSyncLoad(t) \/ EbrSyncCheck(t) \/ EbrSyncAdvance(t)
        \/ GcInsert(t) \/ GcUnpublish(t) \/ GcLimbo(t)
        \/ GcCallSync(t) \/ GcCallFlush(t)
        \/ GcFlushPop(t) \/ GcFlushReturn(t)
        \/ GcReaderEnter(t) \/ GcReaderLoad(t) \/ GcReaderUse(t)

SpecGc == InitGc /\ [][NextGc]_vars


\* ================================================================ claims ==
Registered(t) == tls[t] /= NULL
LocalEpoch(t) == mem[tls[t]].local_epoch
Readers == Workers \ {Writer}
\* t's call `o' has returned and t has not made another call.
Returned(t, o) == t \in actors /\ pc[t] = "done" /\ op[t] = o

\* ---- C1 ----------------------------------------------------------------
\* C1: in the stress test's protocol no registered reader ever dereferences
\* the pointer of an object after the writer has set it to NULL, that is,
\* after a wait() that followed the hiding of the object has returned.
C1_ReadersNeverSeeReclaimed ==
    \A t \in bad : ~Registered(t)

\* A registered reader holds the pointer of an object the writer has hidden,
\* and the writer's qsbr_sync has returned false.
C1_Witness ==
    \E t \in Readers :
        /\ Registered(t)
        /\ pc[t] = "r_deref"
        /\ n[t] = n[Writer]
        /\ ~ds[n[t]].visible
        /\ pc[Writer] = "wait_test"
        /\ res[Writer] = 0

\* ---- C2 ----------------------------------------------------------------
\* The records of the sequence reg up to and including the first one that is
\* neither offline nor at tgt; all of them when there is none.
RECURSIVE ScannedPrefix(_, _)
ScannedPrefix(reg, tgt) ==
    IF reg = <<>> THEN {}
    ELSE IF ~Ready(mem[Head(reg)].local_epoch, tgt) THEN {Head(reg)}
         ELSE {Head(reg)} \cup ScannedPrefix(Tail(reg), tgt)

\* C2: a qsbr_sync(target) that ran with no other operation in progress has
\* set the caller's local epoch to the global epoch, returns true iff every
\* record of the registry is offline (1) or >= target, and has stopped at
\* the first record that is neither.
C2_SyncAlone ==
    \A t \in Threads :
        (solo = t /\ Returned(t, "sync")) =>
            /\ LocalEpoch(t) = global_epoch
            /\ (res[t] = 1) <=>
                   \A r \in RegistrySet(mem, list) :
                       mem[r].local_epoch = 1 \/ mem[r].local_epoch >= target[t]
            /\ seen[t] = ScannedPrefix(Registry(mem, list), target[t])
            /\ res[t] = 0 =>
                   /\ cur[t] \in seen[t]
                   /\ ~Ready(mem[cur[t]].local_epoch, target[t])

\* An undisturbed qsbr_sync returned false at the second record it tested.
C2_Witness ==
    \E t \in Threads :
        /\ solo = t /\ Returned(t, "sync")
        /\ res[t] = 0
        /\ Cardinality(seen[t]) = 2

\* ---- C3 ----------------------------------------------------------------
\* C3: a qsbr_sync(E), E a value a barrier returned, during which every
\* registered thread other than the caller was offline or had checkpointed
\* since that barrier, returns true.
C3_OfflineNotWaitedOn ==
    \A t \in Threads :
        ( /\ \/ Returned(t, "sync")
             \/ op[t] = "wait" /\ pc[t] = "wait_test"
          /\ calm[t] )
        => res[t] = 1

\* ---- C4 ----------------------------------------------------------------
\* t's qsbr_sync, called by qsbr_wait, returns true in this step.
WaitSyncReturnsTrue(t) ==
    /\ op[t] = "wait"
    /\ pc[t] \in {"sync_head", "sync_next"}
    /\ pc'[t] = "wait_test"
    /\ res'[t] = 1

\* C4 as stated: the qsbr_sync(E) of a qsbr_wait does not return true at a
\* moment when some record of the registry is neither offline nor >= E.
C4_NoReturnWhileAnyRecordWaits ==
    [][\A t \in Threads :
          WaitSyncReturnsTrue(t) => Waiting(mem, list, target[t]) = {}]_vars

\* C4, amended: the qsbr_sync(E) of a qsbr_wait (or a qsbr_sync called
\* directly) does not return true if some record has been in the registry,
\* neither offline nor >= E, ever since the scan read the registry head.
C4_NoReturnWhileScannedRecordWaits ==
    \A t \in Threads :
        ( /\ op[t] \in {"sync", "wait"}
          /\ pc[t] \in {"wait_test", "done"}
          /\ res[t] = 1 )
        => blocked[t] = {}

\* A qsbr_wait has returned after its scan tested the record of another
\* thread, which is registered and not offline.
C4_Witness ==
    \E t \in Threads : \E u \in Threads \ {t} :
        /\ Returned(t, "wait")
        /\ res[t] = 1
        /\ Registered(t) /\ Registered(u)
        /\ {tls[t], tls[u]} \subseteq seen[t]
        /\ last_write[u] = "pub"

\* ---- C5 ----------------------------------------------------------------
\* t is inside qsbr_wait, past its barrier, in a process that is alive.
InWait(t) ==
    /\ ~aborted
    /\ op[t] = "wait"
    /\ pc[t] \notin {"wait_barrier", "done"}

\* C5: under fair scheduling no qsbr_wait stays unreturned for ever while,
\* from some moment on, every other registered thread is offline or has
\* checkpointed since the barrier of that qsbr_wait.
C5_WaitReturns ==
    \A t \in Threads :
        []<>(~(InWait(t) /\ OthersReady(t, target[t], mem, tls, last_write)))

\* ---- C6 ----------------------------------------------------------------
\* C6: the k-th qsbr_barrier on a fresh instance returns 2 + k and leaves the
\* global epoch at 2 + k, so the values returned are pairwise distinct; what
\* a thread got from qsbr_barrier is one of them; nothing else moves the
\* global epoch.
C6_BarrierAtomicIncrement ==
    /\ global_epoch = 2 + Len(barrier_log)
    /\ \A i \in 1..Len(barrier_log) : barrier_log[i] = 2 + i
    /\ \A t \in Threads :
           Returned(t, "barrier") => res[t] \in Range(barrier_log)

\* Two threads have each returned from qsbr_barrier.
C6_Witness ==
    \E t, u \in Threads :
        /\ t /= u
        /\ Returned(t, "barrier") /\ Returned(u, "barrier")
        /\ Len(barrier_log) >= 2

\* ---- C7 ----------------------------------------------------------------
SentinelSeparation ==
    /\ global_epoch >= 2
    /\ \A t \in actors :
           Registered(t) =>
               /\ LocalEpoch(t) \in {0, 1} \cup (2..global_epoch)
               /\ LocalEpoch(t) = 1 <=> last_write[t] = "off"
               /\ LocalEpoch(t) = 0 <=> last_write[t] = "reg"

\* C7: the global epoch is >= 2 and never decreases; a registered thread's
\* local epoch is 0, 1 or in 2..global epoch; it is 1 exactly when the last
\* write to it was qsbr_thread_offline's, and 0 exactly when it was
\* qsbr_register's: no checkpoint or thread_online stores 0 or 1.
C7_SentinelSeparation ==
    /\ []SentinelSeparation
    /\ [][global_epoch' >= global_epoch]_vars

\* A thread is offline, another has published an epoch a barrier returned.
C7_Witness ==
    \E t, u \in Threads :
        /\ Registered(t) /\ last_write[t] = "off"
        /\ Registered(u) /\ last_write[u] = "pub"
        /\ LocalEpoch(u) > 2

\* ---- C8 ----------------------------------------------------------------
\* t takes the step that stores to its local epoch in qsbr_thread_offline,
\* or the memset of qsbr_register.
LowersByDesign(t) ==
    /\ pc[t] \in {"offline", "reg_init"}
    /\ pc'[t] /= pc[t]

\* C8: no step of any thread lowers the local epoch of a thread that stays
\* registered, except that thread's own qsbr_thread_offline (and its
\* re-registration, which is none of the calls the claim is about).
C8_LocalEpochMonotone ==
    [][\A t \in Threads :
          (Registered(t) /\ tls'[t] = tls[t] /\ ~LowersByDesign(t))
          => mem'[tls[t]].local_epoch >= LocalEpoch(t)]_vars

\* A thread went offline and has come online again at a later epoch.
C8_Witness ==
    \E t \in Threads :
        /\ Returned(t, "online")
        /\ Registered(t)
        /\ LocalEpoch(t) > 2

\* ---- C9 ----------------------------------------------------------------
\* t's record has been linked by its compare-and-swap.
Linked(t) ==
    Registered(t) /\ pc[t] \notin {"reg_head", "reg_next", "reg_cas"}

\* What t's scan has tested so far and what it will meet from where it is.
ScanView(t) == seen[t] \cup Range(ChainFrom(mem, cur[t], {}))

\* The sets of records of the suffixes of the registry.
RegistrySuffixes ==
    LET reg == Registry(mem, list)
    IN {Range(SubSeq(reg, k, Len(reg))) : k \in 1..(Len(reg) + 1)}

\* C9: while threads register for the first time only, the registry is a
\* NULL-terminated list of distinct records, exactly the records of the
\* threads whose compare-and-swap has succeeded; and what a concurrent scan
\* of qsbr_sync sees is a suffix of the registry, that is, the whole list as
\* it was before some insertions.
C9_RegistrationRace ==
    pristine =>
        /\ ChainEnd(mem, list, {}) = NULL
        /\ RegistrySet(mem, list) = {tls[t] : t \in {u \in actors : Linked(u)}}
        /\ Len(Registry(mem, list)) = Cardinality({u \in actors : Linked(u)})
        /\ \A t \in Threads :
               pc[t] \in {"sync_test", "sync_next"} =>
                   ScanView(t) \in RegistrySuffixes

\* Every thread has registered, and a scan that began before the last
\* insertion does not see the new record.
C9_Witness ==
    /\ pristine
    /\ Len(Registry(mem, list)) = NThreads
    /\ \E t \in Threads :
           /\ pc[t] = "sync_test"
           /\ ScanView(t) /= RegistrySet(mem, list)

\* ---- C10 ---------------------------------------------------------------
\* C10: every record reachable from the registry head is allocated (a
\* thread that has unregistered has no record there), and no qsbr_sync has
\* read a record that is not.
C10_UnregisterDetaches ==
    /\ RegistrySet(mem, list) \subseteq LiveRecs
    /\ ~uaf

\* ---- C11 ---------------------------------------------------------------
\* C11: when a qsbr_register by a thread that had a record has returned (and
\* no record has ever been freed), the thread has the same record, its local
\* epoch is 0, the registry is a NULL-terminated list that holds the record,
\* and the record of every other registered thread is reachable from the
\* registry head.
C11_ReRegistration ==
    \A t \in Threads :
        (Returned(t, "register") /\ again[t] /= NULL /\ ~departed) =>
            /\ tls[t] = again[t]
            /\ LocalEpoch(t) = 0
            /\ ChainEnd(mem, list, {}) = NULL
            /\ tls[t] \in RegistrySet(mem, list)
            /\ \A u \in actors \ {t} :
                   Linked(u) => tls[u] \in RegistrySet(mem, list)

\* ---- C12 ---------------------------------------------------------------
\* C12: the scan of qsbr_sync never comes to a record it has tested already
\* (so it ends after at most as many tests as there are records), in the
\* states reached without any qsbr_unregister.
C12_ScanVisitsOnce ==
    \A t \in Threads :
        (pc[t] = "sync_test" /\ ~departed) => cur[t] \notin seen[t]

\* ---- C13 ---------------------------------------------------------------
\* C13: a qsbr_sync called on an instance on which no thread is registered
\* (and none ever was: the registry is empty) does not end in the death of
\* the process, which a call that returns true would not.
C13_SyncWithoutThreads ==
    \A t \in Threads :
        (op[t] = "sync" /\ LiveRecs = {} /\ list = NULL)
        => pc[t] \notin NoRecordOutcomes

\* ---- C14 ---------------------------------------------------------------
\* The steps of u that store to the local epoch of u's record.
WritesOwnEpoch(u) ==
    /\ pc[u] \in {"reg_init", "ckpt_store", "offline", "online_store"}
    /\ pc'[u] /= pc[u]

\* t takes a step inside the call o.
StepsIn(t, o) ==
    /\ op[t] = o
    /\ pc[t] /= "done"
    /\ pc'[t] /= pc[t]

\* C14: the local epoch of a thread that stays registered changes only in a
\* step of that thread's own register, checkpoint (also the one in sync and
\* wait), thread_offline or thread_online; a step of qsbr_sync or
\* qsbr_barrier by t changes neither the record of any other registered
\* thread nor the registry head, and a step of qsbr_sync leaves the global
\* epoch as it is.
C14_OwnerOnlyWrites ==
    [][/\ \A u \in Threads :
            ( /\ Registered(u) /\ tls'[u] = tls[u]
              /\ mem'[tls[u]].local_epoch /= LocalEpoch(u) )
            => WritesOwnEpoch(u)
       /\ \A t \in Threads :
            (StepsIn(t, "sync") \/ StepsIn(t, "barrier")) =>
                /\ list' = list
                /\ tls' = tls
                /\ \A u \in Threads \ {t} :
                       Registered(u) => mem'[tls[u]] = mem[tls[u]]
                /\ StepsIn(t, "sync") => global_epoch' = global_epoch]_vars

\* A qsbr_sync has tested the record of another registered thread, which has
\* checkpointed, and has returned; a barrier has been called.
C14_Witness ==
    \E t \in Threads : \E u \in Threads \ {t} :
        /\ Returned(t, "sync")
        /\ Registered(t) /\ Registered(u)
        /\ tls[u] \in seen[t]
        /\ last_write[u] = "pub"
        /\ barrier_log /= <<>>

\* ---- C15 ---------------------------------------------------------------
\* t, which has no record, takes its step in a function that asserts that it
\* has one.
StepsWithoutRecord(t) ==
    /\ pc[t] \in AssertPcs
    /\ tls[t] = NULL
    /\ pc'[t] /= pc[t]

\* C15 as stated: the step of a thread without a record in qsbr_checkpoint,
\* qsbr_get_epoch, qsbr_thread_offline, qsbr_thread_online or qsbr_sync is
\* the failure of the assertion, and it changes nothing.
C15_NoRecordAsserts ==
    [][\A t \in Threads :
          StepsWithoutRecord(t) =>
              /\ pc'[t] = "assert_failed"
              /\ shared' = shared]_vars

\* C15, amended: that step ends the process, by the failed assertion or by
\* the access through the NULL pointer, and it changes neither the global
\* epoch, nor the registry, nor any record.
C15_NoRecordDies ==
    [][\A t \in Threads :
          StepsWithoutRecord(t) =>
              /\ aborted'
              /\ pc'[t] \in NoRecordOutcomes
              /\ shared' = shared]_vars

\* A thread that registered and unregistered has called qsbr_sync, and the
\* process has died in it.
C15_Witness ==
    \E t \in Threads :
        /\ aborted
        /\ op[t] = "sync"
        /\ pc[t] \in NoRecordOutcomes
        /\ departed

\* ---- C16 ---------------------------------------------------------------
\* C16: in the EBR stress test no reader that found an object visible inside
\* its critical section dereferences a NULL pointer, the writer reclaiming
\* an object only when the epoch ebr_sync wrote equals the object's tag.
C16_EbrReadersNeverSeeReclaimed ==
    unwritten \/ bad = {}

\* ---- C17 ---------------------------------------------------------------
\* The readers that hold a pointer to the object o.
Holders(o) == {r \in Readers : pc[r] = "gr_use" /\ n[r] = o}

\* C17: an object tagged with the staging epoch at its retirement has its
\* tag equal to incumbent_epoch only once two ebr_sync calls have advanced
\* the epoch since, not after one, and by then no reader holds a pointer to
\* it any more.
C17_ThreeSlotRotation ==
    \A i \in 1..Len(gc_queue) :
        gc_queue[i].tag = (ebr_epoch + 2) % 3
            => /\ advances[gc_queue[i].obj] >= 2
               /\ Holders(gc_queue[i].obj) = {}

\* ---- C18 ---------------------------------------------------------------
\* The sequence s without repetitions is a prefix of the sequence u.
IsPrefix(s, u) == Len(s) <= Len(u) /\ \A i \in 1..Len(s) : s[i] = u[i]

\* C18: the destructors run in the order of the limbo calls, at most once
\* for an object, and never while a reader that was in its critical section
\* when the object was retired is still in it.
C18_GcReclamationSafety ==
    /\ IsPrefix(destroy_log, limbo_log)
    /\ \A i, j \in 1..Len(destroy_log) :
           destroy_log[i] = destroy_log[j] => i = j
    /\ \A o \in Objs : o \in Range(destroy_log) => inside[o] = {}

\* ---- C19 ---------------------------------------------------------------
\* The writer of the stress test is inside wait(), past its qsbr_barrier, in
\* a process that is alive.
WriterWaiting ==
    /\ ~aborted
    /\ pc[Writer] \in {"ckpt_load", "ckpt_store", "sync_head", "sync_test",
                       "sync_next", "wait_test"}

\* C19: once the stop flag is set, a writer that is inside wait() gets out of
\* it: its qsbr_sync returns true.
C19_WriterLeavesWait ==
    (stop /\ WriterWaiting) ~> ~WriterWaiting

\* ---- C20 ---------------------------------------------------------------
\* The local epoch of t, which is offline and stays registered, stops being
\* the sentinel in this step.
LeavesOffline(t) ==
    /\ Registered(t)
    /\ LocalEpoch(t) = OfflineEpoch
    /\ tls'[t] = tls[t]
    /\ mem'[tls[t]].local_epoch /= OfflineEpoch

\* C20 as stated: a thread leaves the offline state only in a call of
\* qsbr_thread_online (leaving aside its own qsbr_checkpoint and
\* qsbr_register, which the claim does not name): not in its own qsbr_sync
\* or qsbr_wait.
C20_OfflineSticky ==
    [][\A t \in Threads :
          LeavesOffline(t) => op[t] \in {"online", "checkpoint", "register"}]_vars

\* C20, amended: a thread leaves the offline state only by a store of its
\* own (the one of qsbr_thread_online, of the qsbr_checkpoint it calls or
\* that its qsbr_sync or qsbr_wait calls, or the memset of its
\* qsbr_register), never by a step of another thread; and the test that the
\* qsbr_sync of another thread makes of its record while it is offline does
\* not end that scan.
C20_OfflineUntilOwnStore ==
    [][\A t \in Threads :
          /\ LeavesOffline(t) => WritesOwnEpoch(t)
          /\ \A w \in Threads \ {t} :
                 ( /\ Registered(t) /\ LocalEpoch(t) = OfflineEpoch
                   /\ pc[w] = "sync_test" /\ cur[w] = tls[t]
                   /\ pc'[w] /= pc[w] )
                 => pc'[w] = "sync_next"]_vars

\* A qsbr_sync has returned true after testing the record of a thread that
\* is offline.
C20_Witness ==
    \E t \in Threads : \E w \in Threads \ {t} :
        /\ Registered(t) /\ last_write[t] = "off"
        /\ Returned(w, "sync") /\ res[w] = 1
        /\ tls[t] \in seen[w]

====
